---- MODULE Spec2Model ----
(***************************************************************************)
(* Model of the video range-delivery handler `serve_video` of src/main.rs. *)
(*                                                                         *)
(* Strings are sequences of one-character strings.  A u64 is kept exactly: *)
(* it is the sequence of its 20 decimal digits, most significant first, so *)
(* that values around 2^64 (wrapped subtractions, u64::MAX in a header)    *)
(* are represented without loss.  Bodies are sequences of byte values.     *)
(*                                                                         *)
(* The router gives every request its own serve_video future; the futures  *)
(* of the requests in flight interleave at every .await (open, seek, seek, *)
(* and each read of read_exact), and other processes may rewrite a file    *)
(* at any moment.  A panic kills the task of one request; a                *)
(* failed allocation aborts the process and with it every request in       *)
(* flight.                                                                 *)
(***************************************************************************)
EXTENDS Integers, Sequences, FiniteSets, TLC

VARIABLES overflow_checks, config, fs, alive, tasks

vars == <<overflow_checks, config, fs, alive, tasks>>

-----------------------------------------------------------------------------
(* u64: exact unsigned 64-bit values as 20 decimal digits.                 *)

\* u64::MAX = 18446744073709551615
U64_MAX == <<1,8,4,4,6,7,4,4,0,7,3,7,0,9,5,5,1,6,1,5>>

\* 2^64, the modulus of wrapping arithmetic
TWO_64 == <<1,8,4,4,6,7,4,4,0,7,3,7,0,9,5,5,1,6,1,6>>

\* i64::MAX = isize::MAX = 9223372036854775807: the largest seek offset and
\* the largest Vec capacity
I64_MAX == <<0,9,2,2,3,3,7,2,0,3,6,8,5,4,7,7,5,8,0,7>>

NDigits == Len(U64_MAX)

RECURSIVE NatDigits(_, _)
NatDigits(n, k) ==
    IF k = 0 THEN <<>> ELSE NatDigits(n \div 10, k - 1) \o <<n % 10>>

\* a small natural number as a u64
U64(n) == NatDigits(n, NDigits)

\* the natural number of a u64 known to be small (below 10^9)
RECURSIVE DigitsNat(_, _)
DigitsNat(a, k) ==
    IF k = 0 THEN 0 ELSE DigitsNat(a, k - 1) * 10 + a[k]

AsNat(a) == DigitsNat(SubSeq(a, NDigits - 8, NDigits), 9)

Lt(a, b) ==
    \E i \in 1..NDigits :
        /\ a[i] < b[i]
        /\ \A j \in 1..(i - 1) : a[j] = b[j]

Le(a, b) == a = b \/ Lt(a, b)

RECURSIVE AddDigits(_, _, _, _)
AddDigits(a, b, i, carry) ==
    IF i = 0 THEN <<>>
    ELSE LET s == a[i] + b[i] + carry
         IN  AddDigits(a, b, i - 1, s \div 10) \o <<s % 10>>

\* a + b as a mathematical integer (both below 10^20 / 2)
MathAdd(a, b) == AddDigits(a, b, NDigits, 0)

RECURSIVE SubDigits(_, _, _, _)
SubDigits(a, b, i, borrow) ==
    IF i = 0 THEN <<>>
    ELSE LET d == a[i] - b[i] - borrow
         IN  SubDigits(a, b, i - 1, IF d < 0 THEN 1 ELSE 0)
                 \o <<IF d < 0 THEN d + 10 ELSE d>>

\* a - b as a mathematical integer, for a >= b
MathSub(a, b) == SubDigits(a, b, NDigits, 0)

\* u64 `a + b`: the wrapped value and whether the sum left 0..2^64-1
Add(a, b) ==
    LET s == MathAdd(a, b)
    IN  IF Lt(U64_MAX, s)
        THEN [val |-> MathSub(s, TWO_64), ovf |-> TRUE]
        ELSE [val |-> s, ovf |-> FALSE]

\* u64 `a - b`: the wrapped value and whether the difference left 0..2^64-1
Sub(a, b) ==
    IF Lt(a, b)
    THEN [val |-> MathSub(MathAdd(a, TWO_64), b), ovf |-> TRUE]
    ELSE [val |-> MathSub(a, b), ovf |-> FALSE]

\* cmp::min
Min(a, b) == IF Lt(b, a) THEN b ELSE a

-----------------------------------------------------------------------------
(* Strings.                                                                *)

DigitChars == <<"0", "1", "2", "3", "4", "5", "6", "7", "8", "9">>

IsDigit(c) == \E d \in 1..10 : DigitChars[d] = c

DigitVal(c) == (CHOOSE d \in 1..10 : DigitChars[d] = c) - 1

NonAscii == "\\xff"

\* HeaderValue::to_str: fails on a byte that is not visible ASCII
to_str(hv) ==
    IF \E i \in 1..Len(hv) : hv[i] = NonAscii
    THEN [ok |-> FALSE, val |-> <<>>]
    ELSE [ok |-> TRUE, val |-> hv]

\* str::parse::<u64>: an optional '+', then at least one decimal digit and
\* nothing else; a value above u64::MAX is an error
RECURSIVE ParseDigits(_, _, _)
ParseDigits(s, i, acc) ==
    IF i > Len(s) THEN [ok |-> TRUE, val |-> acc]
    ELSE IF ~IsDigit(s[i]) THEN [ok |-> FALSE, val |-> U64(0)]
    ELSE IF acc[1] # 0 THEN [ok |-> FALSE, val |-> U64(0)]
    ELSE LET mul == Tail(acc) \o <<0>>
             sum == MathAdd(mul, U64(DigitVal(s[i])))
         IN  IF Lt(U64_MAX, mul) \/ Lt(U64_MAX, sum)
             THEN [ok |-> FALSE, val |-> U64(0)]
             ELSE ParseDigits(s, i + 1, sum)

parse(s) ==
    LET digits == IF Len(s) > 0 /\ s[1] = "+" THEN Tail(s) ELSE s
    IN  IF Len(digits) = 0 THEN [ok |-> FALSE, val |-> U64(0)]
        ELSE ParseDigits(digits, 1, U64(0))

\* Result::unwrap_or
unwrap_or(r, default) == IF r.ok THEN r.val ELSE default

\* str::split_once('-'): the text before and after the first '-'
split_once(s) ==
    IF \E i \in 1..Len(s) : s[i] = "-"
    THEN LET i == CHOOSE k \in 1..Len(s) :
                      s[k] = "-" /\ \A j \in 1..(k - 1) : s[j] # "-"
         IN  [ok |-> TRUE,
              val |-> <<SubSeq(s, 1, i - 1), SubSeq(s, i + 1, Len(s))>>]
    ELSE [ok |-> FALSE, val |-> <<<<>>, <<>>>>]

\* Display of a u64 ({start}, {end}, {size} in format!): decimal, no padding
RECURSIVE StripZeros(_)
StripZeros(d) ==
    IF Len(d) > 1 /\ d[1] = 0 THEN StripZeros(Tail(d)) ELSE d

Display(a) ==
    LET d == StripZeros(a) IN [i \in 1..Len(d) |-> DigitChars[d[i] + 1]]

-----------------------------------------------------------------------------
-----------------------------------------------------------------------------
(* Configuration, resources and requests.                                  *)

\* largest resource size of the model, in bytes
MaxSize == 3

\* Config::default().chunk_size
DEFAULT_CHUNK_SIZE == 65536

\* chunk_size is any value config.toml can give (a TOML integer is an i64)
ChunkSizes == {U64(0), U64(2), U64(DEFAULT_CHUNK_SIZE)}

\* directories under video_path, by the filesystem they are on
Directories == {"clips", "proc", "shm"}

\* names under video_path: a regular file, a name that cannot be opened,
\* and directories (File::open succeeds on them)
Videos == {"movie.mp4", "missing.mp4"} \cup Directories

\* the bytes of a resource of n bytes; every offset holds a different value
FileBytes(n) == [i \in 1..n |-> 16 * i + 1]

RegularFile(n) == <<[kind |-> "file", on |-> "ext4", bytes |-> FileBytes(n)]>>

\* the bytes another process leaves in a file it rewrites to n bytes
Rewritten(n) == [i \in 1..n |-> 99]

\* what a file can hold after a write
Contents ==
    {FileBytes(n) : n \in 0..MaxSize} \cup {Rewritten(n) : n \in 1..MaxSize}

Directory(fstype) == <<[kind |-> "dir", on |-> fstype, bytes |-> <<>>]>>

\* the allocator supplies every buffer of at most MaxAlloc bytes; a larger
\* one (up to isize::MAX) it may fail to supply
MaxAlloc == 1048576

\* the most bytes one read of a tokio File returns (2 MiB)
MAX_BUF_SIZE == 2 * 1024 * 1024

\* a start above i64::MAX whose range_size wraps to a value below it
ABOVE_I64_MAX == MathAdd(I64_MAX, U64(3))

BYTES_EQ == <<"b", "y", "t", "e", "s", "=">>

BYTES == <<"b", "y", "t", "e", "s">>

VIDEO_MP4 == <<"v", "i", "d", "e", "o", "/", "m", "p", "4">>

\* "Video not found"
VIDEO_NOT_FOUND == <<86, 105, 100, 101, 111, 32, 110, 111, 116, 32, 102, 111, 117, 110, 100>>

\* "Range Not Satisfiable"
RANGE_NOT_SATISFIABLE == <<82, 97, 110, 103, 101, 32, 78, 111, 116, 32, 83, 97, 116, 105, 115, 102, 105, 97, 98, 108, 101>>

\* the decimal text of a natural number, as a client writes it
RECURSIVE NatStr(_)
NatStr(n) ==
    IF n < 10 THEN <<DigitChars[n + 1]>>
    ELSE NatStr(n \div 10) \o <<DigitChars[(n % 10) + 1]>>

\* tokens of a range text: small numbers, nothing, not a number
Toks == {NatStr(n) : n \in 0..MaxSize} \cup {<<>>, <<"x">>}

\* a number above every resource size
Beyond == NatStr(MaxSize + 1)

\* tokens that only str::parse tells apart: a sign, 2^64
ParseToks == {<<"+", "1">>, Display(TWO_64)}

\* tokens at the edges of u64: above i64::MAX, u64::MAX
OddToks == {Display(ABOVE_I64_MAX), Display(U64_MAX)}

Dash(a, b) == a \o <<"-">> \o b

\* range texts: start-end (a suffix form when start is empty), a text with
\* no dash, and two-range sets
RangeTexts ==
    {Dash(a, b) : a \in Toks, b \in Toks}
        \cup {Dash(a, Beyond) : a \in {<<>>, NatStr(0)}}
        \cup {Dash(a, <<>>) : a \in ParseToks} \cup {Dash(<<>>, b) : b \in ParseToks}
        \cup {Dash(a, b) : a \in OddToks, b \in {<<>>, NatStr(0)}}
        \cup {Dash(a, b) : a \in {<<>>, NatStr(0)}, b \in OddToks}
        \cup {<<>>, NatStr(MaxSize)}
        \cup UNION {{Dash(NatStr(a), NatStr(b)) \o <<",">> \o Dash(NatStr(0), NatStr(0)) :
                        b \in a..MaxSize} : a \in 0..MaxSize}

\* Range header values that do not begin with "bytes="
OtherHeaders ==
    { <<>>,
      BYTES,
      <<"0", "-", "1">>,
      <<"i", "t", "e", "m", "s", "=", "0", "-", "1">>,
      <<"B", "y", "t", "e", "s", "=", "0", "-", "1">>,
      <<" ", "b", "y", "t", "e", "s", "=", "0", "-", "1">>,
      <<NonAscii>> \o BYTES_EQ \o <<"0", "-", "1">> }

HeaderValues == {BYTES_EQ \o r : r \in RangeTexts} \cup OtherHeaders

\* the Range header of a request: <<>> when absent, <<value>> when present
RangeHeaders == {<<>>} \cup {<<h>> : h \in HeaderValues}

\* the Range headers sent for a directory
DirectoryHeaders ==
    {<<>>, <<BYTES_EQ \o Dash(NatStr(0), NatStr(0))>>,
     <<BYTES_EQ \o Dash(NatStr(1), NatStr(0))>>}

StartsWithBytesEq(h) == Len(h) >= 6 /\ SubSeq(h, 1, 6) = BYTES_EQ

\* the requests in flight at the same time
Tasks == {"A", "B"}

\* the requests of a task.  Requests share nothing but the process, so the
\* second request in flight is one whose allocation can end the process
Requests(i) ==
    IF i = "A"
    THEN {[video |-> v, header |-> h] :
              v \in {"movie.mp4", "missing.mp4"}, h \in RangeHeaders}
         \cup {[video |-> v, header |-> h] :
                   v \in Directories, h \in DirectoryHeaders}
    ELSE {[video |-> "clips", header |-> <<>>]}

-----------------------------------------------------------------------------
(* serve_video, one action per step between its await points.              *)

NoRequest == [video |-> "", header |-> <<>>]

\* a task with no request: the locals of serve_video before it is called
IdleTask ==
    [req |-> NoRequest, pc |-> "idle", size |-> U64(0), pos |-> U64(0),
     range |-> <<>>, buffer |-> U64(0), data |-> <<>>, resp |-> <<>>,
     bytes_read |-> 0, arith_overflow |-> FALSE, modified |-> FALSE]

Init ==
    /\ overflow_checks \in BOOLEAN
    /\ config \in {[chunk_size |-> c] : c \in ChunkSizes}
    /\ fs \in {[v \in Videos |->
                  IF v = "movie.mp4" THEN RegularFile(n)
                  ELSE IF v = "clips" THEN Directory("ext4")
                  ELSE IF v = "proc" THEN Directory("procfs")
                  ELSE IF v = "shm" THEN Directory("tmpfs")
                  ELSE <<>>] :
               n \in 0..MaxSize}
    /\ alive = TRUE
    /\ tasks = [i \in Tasks |-> IdleTask]

\* GET /video/:video reaches the handler with its path and headers, in a
\* task of its own
Receive(i, r) ==
    /\ alive
    /\ tasks[i].pc = "idle"
    /\ tasks' = [tasks EXCEPT ![i] = [IdleTask EXCEPT !.req = r, !.pc = "open"]]
    /\ UNCHANGED <<overflow_checks, config, fs, alive>>

\* another process rewrites a regular file: it truncates it, extends it or
\* changes its bytes, at any moment.  Every request in flight for the file
\* has then seen it written
WriteFile(v, b) ==
    /\ alive
    /\ fs[v] # <<>>
    /\ fs[v][1].kind = "file"
    /\ fs' = [fs EXCEPT ![v] = <<[@[1] EXCEPT !.bytes = b]>>]
    /\ tasks' = [i \in Tasks |->
                    IF tasks[i].pc # "idle" /\ tasks[i].req.video = v
                    THEN [tasks[i] EXCEPT !.modified = TRUE]
                    ELSE tasks[i]]
    /\ UNCHANGED <<overflow_checks, config, alive>>

\* OpenVideo with the Range header sliced before the lookup
OpenVideoAfterHeader(i) ==
    LET t == tasks[i]
    IN  /\ alive
        /\ t.pc = "open"
        /\ tasks' = [tasks EXCEPT ![i] =
               IF t.req.header # <<>> /\ Len(t.req.header[1]) < 6
               THEN [t EXCEPT !.pc = "panicked"]
               ELSE IF fs[t.req.video] = <<>>
               THEN [t EXCEPT !.pc = "done",
                              !.resp = <<[status |-> 404, headers |-> {},
                                          body |-> VIDEO_NOT_FOUND]>>]
               ELSE [t EXCEPT !.pc = "seek_end"]]
        /\ UNCHANGED <<overflow_checks, config, fs, alive>>

\* fs::File::open: an error is answered with 404
OpenVideo(i) ==
    LET t == tasks[i]
    IN  /\ alive
        /\ t.pc = "open"
        /\ tasks' = [tasks EXCEPT ![i] =
               IF fs[t.req.video] = <<>>
               THEN [t EXCEPT !.pc = "done",
                              !.resp = <<[status |-> 404, headers |-> {},
                                          body |-> VIDEO_NOT_FOUND]>>]
               ELSE [t EXCEPT !.pc = "seek_end"]]
        /\ UNCHANGED <<overflow_checks, config, fs, alive>>

\* what seek(SeekFrom::End(0)) returns: the length of a regular file; on a
\* directory what its filesystem gives: i64::MAX (ext4), 0 (procfs, sysfs),
\* or the error EINVAL (tmpfs, devtmpfs)
EndOffset(f) ==
    IF f.kind = "file" THEN [ok |-> TRUE, val |-> U64(Len(f.bytes))]
    ELSE IF f.on = "ext4" THEN [ok |-> TRUE, val |-> I64_MAX]
    ELSE IF f.on = "procfs" THEN [ok |-> TRUE, val |-> U64(0)]
    ELSE [ok |-> FALSE, val |-> U64(0)]

\* video.seek(SeekFrom::End(0)).await.unwrap(): the size of the resource,
\* the handle left at the end; an error is a panic
SeekEnd(i) ==
    LET t == tasks[i]
        e == EndOffset(fs[t.req.video][1])
    IN  /\ alive
        /\ t.pc = "seek_end"
        /\ tasks' = [tasks EXCEPT ![i] =
               IF e.ok
               THEN [t EXCEPT !.pc = "range", !.size = e.val, !.pos = e.val]
               ELSE [t EXCEPT !.pc = "panicked"]]
        /\ UNCHANGED <<overflow_checks, config, fs, alive>>

\* SuffixRange ending at size instead of size - 1
SuffixRangeToSize(sz, last) ==
    LET s == Sub(sz, last)
    IN  [start |-> s.val, end |-> sz, ovf |-> s.ovf]

\* the suffix branch: (size - last, size - 1)
SuffixRange(sz, last) ==
    LET s == Sub(sz, last)
        e == Sub(sz, U64(1))
    IN  [start |-> s.val, end |-> e.val, ovf |-> s.ovf \/ e.ovf]

\* cmp::min(start + config.chunk_size, size) - 1, computed whether or not
\* the end token parses (the argument of unwrap_or is evaluated first)
DefaultEnd(start, chunk_size, sz) ==
    LET sum == Add(start, chunk_size)
        e   == Sub(Min(sum.val, sz), U64(1))
    IN  [val |-> e.val, ovf |-> sum.ovf \/ e.ovf]

\* the explicit branch: split at the first '-', parse both tokens
ExplicitRange(text, chunk_size, sz) ==
    LET toks  == unwrap_or(split_once(text), <<<<>>, <<>>>>)
        start == unwrap_or(parse(toks[1]), U64(0))
        dflt  == DefaultEnd(start, chunk_size, sz)
    IN  [start |-> start,
         end |-> unwrap_or(parse(toks[2]), dflt.val),
         ovf |-> dflt.ovf]

\* `let (start, end) = ...` for a present Range header.  panic: a slice
\* index is out of bounds, or an arithmetic step overflows in a build
\* with overflow checks
StartEnd(hv, chunk_size, sz, checks) ==
    LET header_str == unwrap_or(to_str(hv), <<>>)
    IN  IF Len(header_str) < 6
        THEN [panic |-> TRUE, ovf |-> FALSE, start |-> U64(0), end |-> U64(0)]
        ELSE
        LET text == IF SubSeq(header_str, 1, 6) = BYTES_EQ
                    THEN SubSeq(header_str, 7, Len(header_str))
                    ELSE <<>>
        IN  IF Len(text) < 1
            THEN [panic |-> TRUE, ovf |-> FALSE,
                  start |-> U64(0), end |-> U64(0)]
            ELSE
            LET r == IF SubSeq(text, 1, 1) = <<"-">>
                     THEN SuffixRange(sz,
                              unwrap_or(parse(SubSeq(text, 2, Len(text))),
                                        U64(0)))
                     ELSE ExplicitRange(text, chunk_size, sz)
            IN  [panic |-> checks /\ r.ovf, ovf |-> r.ovf,
                 start |-> r.start, end |-> r.end]

\* header.get(RANGE) is Some: compute the candidate range
ParseRange(i) ==
    LET t == tasks[i]
    IN  /\ alive
        /\ t.pc = "range"
        /\ t.req.header # <<>>
        /\ LET r == StartEnd(t.req.header[1], config.chunk_size, t.size,
                             overflow_checks)
           IN  tasks' = [tasks EXCEPT ![i] =
                   IF r.panic
                   THEN [t EXCEPT !.pc = "panicked",
                                  !.arith_overflow = r.ovf]
                   ELSE [t EXCEPT !.pc = "validate",
                                  !.arith_overflow = r.ovf,
                                  !.range = <<[start |-> r.start,
                                               end |-> r.end]>>]]
        /\ UNCHANGED <<overflow_checks, config, fs, alive>>

\* vec![0; n]: "panicked" when n exceeds isize::MAX (capacity overflow);
\* above MaxAlloc the allocation may fail, which aborts the process, or
\* be supplied; otherwise the handler goes on at `next`
AfterAlloc(n, next) ==
    IF Lt(I64_MAX, n) THEN {"panicked"}
    ELSE IF Lt(U64(MaxAlloc), n) THEN {"aborted", next}
    ELSE {next}

\* seek(SeekFrom::Start(offset)).unwrap(): an offset above i64::MAX is an
\* error, so a panic
SeekFails(offset) == Lt(I64_MAX, offset)

\* one read of the file into n free bytes of the buffer, at offset p:
\* the bytes from p to the end of the file, at most n and at most
\* MAX_BUF_SIZE of them; none at or past the end; an error on a directory
read(f, p, n) ==
    IF f.kind = "dir" THEN [ok |-> FALSE, data |-> <<>>]
    ELSE LET avail == IF Lt(p, U64(Len(f.bytes)))
                      THEN Len(f.bytes) - AsNat(p) ELSE 0
             want  == IF Lt(U64(MAX_BUF_SIZE), n)
                      THEN MAX_BUF_SIZE ELSE AsNat(n)
             got   == IF avail < want THEN avail ELSE want
         IN  [ok |-> TRUE,
              data |-> IF got = 0 THEN <<>>
                       ELSE SubSeq(f.bytes, AsNat(p) + 1, AsNat(p) + got)]

\* one turn of the loop of read_exact on the buffer of task t: "filled"
\* when the buffer is full (an empty buffer is, without a read), "more"
\* when the read left it short, "failed" on an error or a read of no
\* bytes (UnexpectedEof).  The handle moves by the bytes read.
read_exact(t, f) ==
    IF t.buffer = U64(Len(t.data)) THEN [state |-> "filled", task |-> t]
    ELSE LET r == read(f, t.pos, MathSub(t.buffer, U64(Len(t.data))))
             d == t.data \o r.data
         IN  IF ~r.ok \/ r.data = <<>>
             THEN [state |-> "failed", task |-> t]
             ELSE [state |-> IF t.buffer = U64(Len(d))
                             THEN "filled" ELSE "more",
                   task |-> [t EXCEPT
                                !.data = d,
                                !.pos = MathAdd(t.pos, U64(Len(r.data))),
                                !.bytes_read = t.bytes_read + Len(r.data)]]

\* ServeFull without seek(SeekFrom::Start(0)): the handle stays at the end
\* of the file, where seek(SeekFrom::End(0)) left it
ServeFullNoRewind(i) ==
    LET t == tasks[i]
    IN  /\ alive
        /\ t.pc = "range"
        /\ t.req.header = <<>>
        /\ \E after \in AfterAlloc(t.size, "full_read") :
               /\ alive' = (after # "aborted")
               /\ tasks' = [tasks EXCEPT ![i] =
                      IF after = "full_read"
                      THEN [t EXCEPT !.pc = after, !.buffer = t.size]
                      ELSE [t EXCEPT !.pc = after]]
        /\ UNCHANGED <<overflow_checks, config, fs>>

\* header.get(RANGE) is None: a buffer of size bytes, then
\* seek(SeekFrom::Start(0)); an allocation that fails ends the process
ServeFull(i) ==
    LET t == tasks[i]
    IN  /\ alive
        /\ t.pc = "range"
        /\ t.req.header = <<>>
        /\ \E after \in AfterAlloc(t.size, "full_read") :
               /\ alive' = (after # "aborted")
               /\ tasks' = [tasks EXCEPT ![i] =
                      IF after = "full_read"
                      THEN [t EXCEPT !.pc = after, !.buffer = t.size,
                                     !.pos = U64(0)]
                      ELSE [t EXCEPT !.pc = after]]
        /\ UNCHANGED <<overflow_checks, config, fs>>

\* read_exact of the whole resource, one read at a time, then 200
ServeFullRead(i) ==
    LET t == tasks[i]
        r == read_exact(t, fs[t.req.video][1])
    IN  /\ alive
        /\ t.pc = "full_read"
        /\ tasks' = [tasks EXCEPT ![i] =
               IF r.state = "failed" THEN [r.task EXCEPT !.pc = "panicked"]
               ELSE IF r.state = "more" THEN r.task
               ELSE [r.task EXCEPT
                        !.pc = "done",
                        !.resp = <<[status |-> 200,
                                    headers |-> {<<"accept-ranges", BYTES>>},
                                    body |-> r.task.data]>>]]
        /\ UNCHANGED <<overflow_checks, config, fs, alive>>

\* if end >= size: 416
Validate(i) ==
    LET t == tasks[i]
    IN  /\ alive
        /\ t.pc = "validate"
        /\ tasks' = [tasks EXCEPT ![i] =
               IF Le(t.size, t.range[1].end)
               THEN [t EXCEPT !.pc = "done",
                              !.resp = <<[status |-> 416, headers |-> {},
                                          body |-> RANGE_NOT_SATISFIABLE]>>]
               ELSE [t EXCEPT !.pc = "read"]]
        /\ UNCHANGED <<overflow_checks, config, fs, alive>>

\* end + 1 - start
RangeSize(start, end) ==
    LET e1 == Add(end, U64(1))
        rs == Sub(e1.val, start)
    IN  [val |-> rs.val, ovf |-> e1.ovf \/ rs.ovf]

ContentRange(start, end, sz) ==
    BYTES \o <<" ">> \o Display(start) \o <<"-">> \o Display(end)
          \o <<"/">> \o Display(sz)

\* range_size, a buffer of range_size bytes, then
\* seek(SeekFrom::Start(start)); an allocation that fails ends the process
ReadRange(i) ==
    LET t     == tasks[i]
        start == t.range[1].start
        rs    == RangeSize(start, t.range[1].end)
        u     == [t EXCEPT !.arith_overflow = (t.arith_overflow \/ rs.ovf)]
    IN  /\ alive
        /\ t.pc = "read"
        /\ IF overflow_checks /\ rs.ovf
           THEN /\ tasks' = [tasks EXCEPT ![i] = [u EXCEPT !.pc = "panicked"]]
                /\ alive' = alive
           ELSE \E after \in AfterAlloc(rs.val, "range_read") :
                    /\ alive' = (after # "aborted")
                    /\ tasks' = [tasks EXCEPT ![i] =
                           IF after # "range_read"
                           THEN [u EXCEPT !.pc = after]
                           ELSE IF SeekFails(start)
                           THEN [u EXCEPT !.pc = "panicked",
                                          !.buffer = rs.val]
                           ELSE [u EXCEPT !.pc = "range_read",
                                          !.buffer = rs.val,
                                          !.pos = start]]
        /\ UNCHANGED <<overflow_checks, config, fs>>

\* read_exact of the range, one read at a time, then 206
ReadRangeRead(i) ==
    LET t == tasks[i]
        r == read_exact(t, fs[t.req.video][1])
    IN  /\ alive
        /\ t.pc = "range_read"
        /\ tasks' = [tasks EXCEPT ![i] =
               IF r.state = "failed" THEN [r.task EXCEPT !.pc = "panicked"]
               ELSE IF r.state = "more" THEN r.task
               ELSE [r.task EXCEPT
                        !.pc = "done",
                        !.resp = <<[status |-> 206,
                                    headers |->
                                      {<<"content-range",
                                         ContentRange(t.range[1].start,
                                                      t.range[1].end,
                                                      t.size)>>,
                                       <<"accept-ranges", BYTES>>,
                                       <<"content-type", VIDEO_MP4>>},
                                    body |-> r.task.data]>>]]
        /\ UNCHANGED <<overflow_checks, config, fs, alive>>

\* the response is handed back, or the task of the request has died; the
\* handler keeps nothing for the next request.  After an abort the process
\* is gone: no request in flight is answered and none is served again.
Complete(i) ==
    /\ alive
    /\ tasks[i].pc \in {"done", "panicked"}
    /\ tasks' = [tasks EXCEPT ![i] = IdleTask]
    /\ UNCHANGED <<overflow_checks, config, fs, alive>>

Next ==
    \/ \E i \in Tasks : \E r \in Requests(i) : Receive(i, r)
    \/ \E v \in Videos, b \in Contents : WriteFile(v, b)
    \/ \E i \in Tasks : OpenVideo(i)
    \/ \E i \in Tasks : SeekEnd(i)
    \/ \E i \in Tasks : ParseRange(i)
    \/ \E i \in Tasks : ServeFull(i)
    \/ \E i \in Tasks : ServeFullRead(i)
    \/ \E i \in Tasks : Validate(i)
    \/ \E i \in Tasks : ReadRange(i)
    \/ \E i \in Tasks : ReadRangeRead(i)
    \/ \E i \in Tasks : Complete(i)

Spec == Init /\ [][Next]_vars

-----------------------------------------------------------------------------
(* Properties.  A claim speaks of one call of serve_video: it is stated    *)
(* for every task, at the point where the call has returned a response,    *)
(* or has panicked, or has itself ended the process.  A call that another  *)
(* request's abort leaves unanswered has produced no outcome.              *)

\* the call of task i has returned a response, has panicked, or has
\* aborted the process
Finished(i) == tasks[i].pc \in {"done", "panicked", "aborted"}

\* the request names a regular file that no other process has written
\* since the request arrived: a resource of S bytes, S at most MaxSize
Exists(i) ==
    /\ fs[tasks[i].req.video] # <<>>
    /\ fs[tasks[i].req.video][1].kind = "file"
    /\ ~tasks[i].modified

File(i) == fs[tasks[i].req.video][1].bytes

S(i) == Len(File(i))

\* the request carries the Range header `bytes=<text>`
RangeIs(i, text) == tasks[i].req.header = <<BYTES_EQ \o text>>

\* 200, Accept-Ranges: bytes, the whole resource
FullResponse(i) ==
    [status |-> 200, headers |-> {<<"accept-ranges", BYTES>>},
     body |-> File(i)]

\* 206, Content-Range: bytes s-e/S, bytes s..e of the resource
PartialResponse(i, s, e) ==
    [status |-> 206,
     headers |-> {<<"content-range",
                    BYTES \o <<" ">> \o NatStr(s) \o <<"-">> \o NatStr(e)
                          \o <<"/">> \o NatStr(S(i))>>,
                  <<"accept-ranges", BYTES>>,
                  <<"content-type", VIDEO_MP4>>},
     body |-> SubSeq(File(i), s + 1, e + 1)]

Answered(i, r) == tasks[i].pc = "done" /\ tasks[i].resp = <<r>>

\* C1: for 0 <= start <= end < S, `bytes=start-end` is answered 206 with
\* Content-Range: bytes start-end/S and bytes start..end of the resource.
C1_ExplicitRange ==
    \A i \in Tasks : \A s \in 0..MaxSize, e \in 0..MaxSize :
        (Finished(i) /\ Exists(i) /\ s <= e /\ e < S(i)
             /\ RangeIs(i, Dash(NatStr(s), NatStr(e))))
            => Answered(i, PartialResponse(i, s, e))

\* C2: a request for a resource of S bytes whose Range header names an end
\* at or beyond S, `bytes=start-end` with end >= S, is answered 416, never
\* 206 or 200.
C2_EndBeyondSize ==
    \A i \in Tasks : \A s \in 0..MaxSize, e \in 0..(MaxSize + 1) :
        (Finished(i) /\ Exists(i) /\ e >= S(i)
             /\ RangeIs(i, Dash(NatStr(s), NatStr(e))))
            => (tasks[i].pc = "done" /\ tasks[i].resp[1].status = 416)

\* C3: every 206 response carries a range with start <= end < S and a body
\* of end - start + 1 bytes.
C3_PartialInvariant ==
    \A i \in Tasks :
        (tasks[i].pc = "done" /\ tasks[i].resp[1].status = 206)
            => /\ Le(tasks[i].range[1].start, tasks[i].range[1].end)
               /\ Lt(tasks[i].range[1].end, tasks[i].size)
               /\ Len(tasks[i].resp[1].body)
                      = AsNat(tasks[i].range[1].end)
                            - AsNat(tasks[i].range[1].start) + 1

\* C4: a Range header that does not begin with `bytes=` is handled as if no
\* range was requested: 200, Accept-Ranges: bytes, the whole resource.
C4_OtherHeaderIsFull ==
    \A i \in Tasks :
        (Finished(i) /\ Exists(i) /\ tasks[i].req.header # <<>>
             /\ ~StartsWithBytesEq(tasks[i].req.header[1]))
            => Answered(i, FullResponse(i))

\* C5: for 0 < N <= S, `bytes=-N` gives start = S-N, end = S-1: 206 with
\* Content-Range: bytes (S-N)-(S-1)/S and the last N bytes.
C5_SuffixRange ==
    \A i \in Tasks : \A n \in 1..MaxSize :
        (Finished(i) /\ Exists(i) /\ n <= S(i)
             /\ RangeIs(i, <<"-">> \o NatStr(n)))
            => /\ tasks[i].range
                      = <<[start |-> U64(S(i) - n), end |-> U64(S(i) - 1)]>>
               /\ Answered(i, PartialResponse(i, S(i) - n, S(i) - 1))

C5_Witness ==
    \E i \in Tasks :
        /\ tasks[i].pc = "done"
        /\ Exists(i)
        /\ S(i) >= 3
        /\ RangeIs(i, <<"-">> \o NatStr(2))
        /\ tasks[i].resp[1].status = 206
        /\ tasks[i].resp[1].body = SubSeq(File(i), S(i) - 1, S(i))

\* C6: without a Range header the answer is 200 with Accept-Ranges: bytes,
\* the whole resource (S bytes, S = 0 included) and no Content-Range, for
\* every resource whose S bytes the allocator supplies (S <= MaxSize).
C6_NoRangeIsFull ==
    \A i \in Tasks :
        (Finished(i) /\ Exists(i) /\ tasks[i].req.header = <<>>)
            => /\ Answered(i, FullResponse(i))
               /\ Len(tasks[i].resp[1].body) = S(i)
               /\ \A h \in tasks[i].resp[1].headers : h[1] # "content-range"

C6_Witness ==
    \E i \in Tasks :
        /\ tasks[i].pc = "done"
        /\ Exists(i)
        /\ S(i) >= 2
        /\ tasks[i].req.header = <<>>
        /\ tasks[i].resp[1].status = 200
        /\ tasks[i].resp[1].body = File(i)

\* C7: a resource that cannot be opened is answered 404 whatever the Range
\* header is; the header is never parsed and no file byte is read.
C7_MissingIsNotFound ==
    \A i \in Tasks :
        (Finished(i) /\ fs[tasks[i].req.video] = <<>>)
            => /\ Answered(i, [status |-> 404, headers |-> {},
                               body |-> VIDEO_NOT_FOUND])
               /\ tasks[i].range = <<>>
               /\ tasks[i].bytes_read = 0

C7_Witness ==
    \E i \in Tasks :
        /\ tasks[i].pc = "done"
        /\ fs[tasks[i].req.video] = <<>>
        /\ tasks[i].req.header = <<BYTES>>
        /\ tasks[i].resp[1].status = 404

\* min(start + C, S) - 1 over the integers, for start < S
ChunkEnd(i, s) ==
    IF Lt(config.chunk_size, U64(S(i) - s))
    THEN s + AsNat(config.chunk_size) - 1
    ELSE S(i) - 1

\* C8: for start < S, `bytes=start-` and `bytes=start-X` with X unparsable
\* are answered 206 with end = min(start + C, S) - 1; an unparsable start
\* token is taken as 0.
C8_DefaultEnd ==
    \A i \in Tasks : \A s \in 0..MaxSize :
        \A t \in {NatStr(s), <<"x">>}, x \in {<<>>, <<"x">>} :
            LET start == IF t = <<"x">> THEN 0 ELSE s
            IN  (Finished(i) /\ Exists(i) /\ start < S(i)
                     /\ RangeIs(i, Dash(t, x)))
                    => /\ ChunkEnd(i, start) >= 0
                       /\ Answered(i, PartialResponse(i, start,
                                                      ChunkEnd(i, start)))

\* C9: `bytes=a-b,c-d` with 0 <= a <= b < S is answered as `bytes=a-b`.
C9_FirstRangeOnly ==
    \A i \in Tasks : \A a \in 0..MaxSize, b \in 0..MaxSize :
        (Finished(i) /\ Exists(i) /\ a <= b /\ b < S(i)
             /\ RangeIs(i, Dash(NatStr(a), NatStr(b)) \o <<",">>
                               \o Dash(NatStr(0), NatStr(0))))
            => Answered(i, PartialResponse(i, a, b))

\* C10: no u64 arithmetic step of the range computation leaves 0..2^64-1.
C10_NoOverflow == \A i \in Tasks : ~tasks[i].arith_overflow

====
